---- MODULE Spec2Model ----
(***************************************************************************)
(* mini-aqm: main.py.  The program discovers PMS7003 sensors, opens the    *)
(* influxdb log, signals the systemd watchdog and then polls every device  *)
(* forever.  The model follows main() statement by statement; every call   *)
(* main makes on a collaborator (find_devices, click.echo, print,          *)
(* InfluxdbLogger, watchdog, dev.read, logger.emit) is appended to `trace`.*)
(* Concentrations handed to get_breakpoint are floats in the program; the  *)
(* model represents a float x by the integer 10*x (tenths of a unit).      *)
(***************************************************************************)
EXTENDS Integers, Sequences, FiniteSets, TLC

VARIABLES
    serial,     \* the serial ports of the machine, in scan order, and whether a PMS7003 answers
    port,       \* --port option (0 = not given)
    debug,      \* --debug option
    log_only,   \* --log-only option
    pc,         \* position of main
    possible,   \* main: possible
    devs,       \* main: devs
    logger,     \* main: logger
    wd,         \* main: wd
    iter,       \* number of times the body of `while True` was entered
    i,          \* position of `for dev in devs` (index in devs)
    data,       \* main: data
    pm25,       \* argument of the last call of get_breakpoint (-1 = none)
    bp,         \* value returned by the last call of get_breakpoint (<<>> = none)
    held,       \* resources (serial handles, log sink) acquired and not released
    trace       \* collaborator calls made so far, in order

vars == <<serial, port, debug, log_only, pc, possible, devs, logger, wd,
          iter, i, data, pm25, bp, held, trace>>

----------------------------------------------------------------------------
(* Bounds *)

MaxPorts == 2
MaxIter == 2
MaxConc == 2600

----------------------------------------------------------------------------
(* Values *)

NoDev == [id |-> 0, port |-> 0]
NoError == "None"
NoLogger == [path |-> "", MEASUREMENT |-> ""]
NoData == [none |-> TRUE]

\* colorama escape codes, by name
Fore == [GREEN |-> "Fore.GREEN", YELLOW |-> "Fore.YELLOW", RED |-> "Fore.RED",
         MAGENTA |-> "Fore.MAGENTA", BLUE |-> "Fore.BLUE"]
Style == [BRIGHT |-> "Style.BRIGHT", RESET_ALL |-> "Style.RESET_ALL"]

\* a PMSData frame; the fields are those print_debug reads
PMSData(cf1, atm, cnt) ==
    [header_high |-> "B", header_low |-> "M", frame_length |-> 28,
     pm1_0_cf1 |-> cf1 - 2, pm1_0_atm |-> atm - 3,
     pm2_5_cf1 |-> cf1,     pm2_5_atm |-> atm,
     pm10_0_cf1 |-> cf1 + 4, pm10_0_atm |-> atm + 5,
     count_0_3 |-> cnt + 50, count_0_5 |-> cnt + 40, count_1_0 |-> cnt + 30,
     count_2_5 |-> cnt + 20, count_5_0 |-> cnt + 10, count_10_0 |-> cnt,
     reserved |-> 0, checksum |-> cf1 + atm + cnt]

\* the frames a device may return in this model
Samples == { PMSData(16, 12, 700), PMSData(140, 150, 900) }

----------------------------------------------------------------------------
(* get_breakpoint, src/main.py:14-27.  The argument is in tenths.          *)

\* get_breakpoint with `<=` in the first comparison
get_breakpoint_le(x) ==
    IF x <= 155 THEN <<"Good", Fore.GREEN>>
    ELSE IF x < 405 THEN <<"Moderate", Fore.YELLOW>>
    ELSE IF x < 655 THEN <<"Unhealthy for Certain Groups", Fore.YELLOW \o Style.BRIGHT>>
    ELSE IF x < 1500 THEN <<"Unhealthy", Fore.RED>>
    ELSE IF x < 2500 THEN <<"Very Unhealthy", Fore.RED \o Style.BRIGHT>>
    ELSE <<"Hazardous", Fore.MAGENTA>>

\* get_breakpoint with the results of the fourth and fifth branch exchanged
get_breakpoint_swapped(x) ==
    IF x < 155 THEN <<"Good", Fore.GREEN>>
    ELSE IF x < 405 THEN <<"Moderate", Fore.YELLOW>>
    ELSE IF x < 655 THEN <<"Unhealthy for Certain Groups", Fore.YELLOW \o Style.BRIGHT>>
    ELSE IF x < 1500 THEN <<"Very Unhealthy", Fore.RED \o Style.BRIGHT>>
    ELSE IF x < 2500 THEN <<"Unhealthy", Fore.RED>>
    ELSE <<"Hazardous", Fore.MAGENTA>>

get_breakpoint(x) ==
    IF x < 155 THEN <<"Good", Fore.GREEN>>
    ELSE IF x < 405 THEN <<"Moderate", Fore.YELLOW>>
    ELSE IF x < 655 THEN <<"Unhealthy for Certain Groups", Fore.YELLOW \o Style.BRIGHT>>
    ELSE IF x < 1500 THEN <<"Unhealthy", Fore.RED>>
    ELSE IF x < 2500 THEN <<"Very Unhealthy", Fore.RED \o Style.BRIGHT>>
    ELSE <<"Hazardous", Fore.MAGENTA>>

\* float(n) of an integer concentration, in tenths
ToTenths(n) == n * 10

\* str.startswith
startswith(k, prefix) ==
    Len(k) >= Len(prefix) /\ SubSeq(k, 1, Len(prefix)) = prefix

\* pm_fields without the filter on the key
pm_fields_unfiltered(d) == d

\* {k: v for k, v in data._asdict().items() if k.startswith("pm")}
pm_fields(d) ==
    LET keys == { k \in DOMAIN d : startswith(k, "pm") }
    IN  [k \in keys |-> d[k]]

\* the line print_pm echoes
pm_line(d, aqi, style) ==
    [kind |-> "summary",
     pm1_0 |-> d.pm1_0_atm,
     pm2_5 |-> <<style, d.pm2_5_atm, Style.RESET_ALL>>,
     pm10 |-> d.pm10_0_atm,
     aqi |-> <<style, aqi, Style.RESET_ALL>>]

----------------------------------------------------------------------------
(* Collaborators of main that live outside main.py *)

\* PMS7003.find_devices(only=port): one SearchResult per candidate port
SearchResult(c) ==
    IF c.ok
    THEN [desc |-> "USB-Serial", port |-> c.port,
          dev |-> [id |-> 100 + c.port, port |-> c.port], error |-> NoError]
    ELSE [desc |-> "USB-Serial", port |-> c.port,
          dev |-> NoDev, error |-> "Permission denied"]

find_devices(only) ==
    LET cand == SelectSeq(serial, LAMBDA c : only = 0 \/ c.port = only)
    IN  [k \in 1..Len(cand) |-> SearchResult(cand[k])]

\* InfluxdbLogger(log_path)
InfluxdbLogger(path) == [path |-> path, MEASUREMENT |-> "particulate_matter"]

----------------------------------------------------------------------------
(* Helpers *)

Log(e) == trace' = Append(trace, e)
Log2(e, f) == trace' = Append(Append(trace, e), f)

Range(s) == { s[k] : k \in DOMAIN s }

\* any(seq), on the truth values of the elements
any(bools) == \E k \in DOMAIN bools : bools[k]

\* a SearchResult is a non-empty tuple, a PMS7003 object has no __bool__
truthy_result(p) == TRUE

\* truthy_dev that takes every entry for a device
truthy_dev_always(d) == TRUE

truthy_dev(d) == d # NoDev

\* error_lines that stops after the first result
error_lines_first(ps) ==
    IF ps = <<>> THEN <<>>
    ELSE IF Head(ps).dev = NoDev
         THEN << <<"echo_err", [kind |-> "port_error", style |-> Fore.YELLOW,
                                desc |-> Head(ps).desc, port |-> Head(ps).port,
                                error |-> Head(ps).error]>> >>
         ELSE <<>>

RECURSIVE error_lines(_)
error_lines(ps) ==
    IF ps = <<>> THEN <<>>
    ELSE (IF Head(ps).dev = NoDev
          THEN << <<"echo_err", [kind |-> "port_error", style |-> Fore.YELLOW,
                                 desc |-> Head(ps).desc, port |-> Head(ps).port,
                                 error |-> Head(ps).error]>> >>
          ELSE <<>>) \o error_lines(Tail(ps))

RECURSIVE begin_lines(_)
begin_lines(ds) ==
    IF ds = <<>> THEN <<>>
    ELSE << <<"echo", [kind |-> "beginning", style |-> Fore.GREEN, id |-> Head(ds).id]>> >>
         \o begin_lines(Tail(ds))

Running == {"loop", "read", "reading", "debug", "emit", "summary"}

----------------------------------------------------------------------------
(* main, src/main.py:101-166 *)

Init ==
    /\ \E n \in 0..MaxPorts :
         \E ok \in [1..n -> BOOLEAN] :
            serial = [k \in 1..n |-> [port |-> k, ok |-> ok[k]]]
    /\ port \in 0..MaxPorts
    /\ debug \in BOOLEAN
    /\ log_only \in BOOLEAN
    /\ pc = "start"
    /\ possible = <<>>
    /\ devs = <<>>
    /\ logger = NoLogger
    /\ wd = FALSE
    /\ iter = 0
    /\ i = 0
    /\ data = NoData
    /\ pm25 = -1
    /\ bp = <<>>
    /\ held = {}
    /\ trace = <<>>

\* lines 102-115: configure_logging, find_devices, `if not any(possible)`
Discover ==
    /\ pc = "start"
    /\ possible' = find_devices(port)
    /\ held' = { <<"dev", p.dev.id>> : p \in { q \in Range(possible') : q.dev # NoDev } }
    /\ IF ~ any([k \in DOMAIN possible' |-> truthy_result(possible'[k])])
       THEN /\ Log2(<<"find_devices", port>>,
                    <<"echo_err", [kind |-> "no_serial", style |-> Fore.RED]>>)
            /\ pc' = "returned"
       ELSE /\ Log(<<"find_devices", port>>)
            /\ pc' = "warn"
    /\ UNCHANGED <<serial, port, debug, log_only, devs, logger, wd, iter, i, data, pm25, bp>>

\* lines 117-124: one warning per result without a device
WarnErrors ==
    /\ pc = "warn"
    /\ trace' = trace \o error_lines(possible)
    /\ pc' = "collect"
    /\ UNCHANGED <<serial, port, debug, log_only, possible, devs, logger, wd,
                   iter, i, data, pm25, bp, held>>

\* CollectDevs that builds devs in the reverse of the discovery order
CollectDevs_reversed ==
    /\ pc = "collect"
    /\ devs' = [k \in 1..Len(SelectSeq(possible, LAMBDA p : truthy_dev(p.dev)))
                  |-> SelectSeq(possible, LAMBDA p : truthy_dev(p.dev))
                        [Len(SelectSeq(possible, LAMBDA p : truthy_dev(p.dev))) + 1 - k].dev]
    /\ IF ~ any([k \in DOMAIN devs' |-> truthy_dev(devs'[k])])
       THEN /\ Log(<<"echo_err", [kind |-> "no_pms", style |-> Fore.RED]>>)
            /\ pc' = "returned"
       ELSE /\ UNCHANGED trace
            /\ pc' = "open_sink"
    /\ UNCHANGED <<serial, port, debug, log_only, possible, logger, wd,
                   iter, i, data, pm25, bp, held>>

\* lines 126-134: devs, `if not any(devs)`
CollectDevs ==
    /\ pc = "collect"
    /\ devs' = [k \in 1..Len(SelectSeq(possible, LAMBDA p : truthy_dev(p.dev)))
                  |-> SelectSeq(possible, LAMBDA p : truthy_dev(p.dev))[k].dev]
    /\ IF ~ any([k \in DOMAIN devs' |-> truthy_dev(devs'[k])])
       THEN /\ Log(<<"echo_err", [kind |-> "no_pms", style |-> Fore.RED]>>)
            /\ pc' = "returned"
       ELSE /\ UNCHANGED trace
            /\ pc' = "open_sink"
    /\ UNCHANGED <<serial, port, debug, log_only, possible, logger, wd,
                   iter, i, data, pm25, bp, held>>

\* lines 136-141: logger = InfluxdbLogger(log_path) and the banner
OpenSink ==
    /\ pc = "open_sink"
    /\ logger' = InfluxdbLogger("measurements.log")
    /\ held' = held \cup { <<"sink", 0>> }
    /\ Log2(<<"InfluxdbLogger", "measurements.log">>,
            <<"echo", [kind |-> "writing", style |-> Fore.BLUE,
                       measurement |-> logger'.MEASUREMENT, path |-> logger'.path]>>)
    /\ pc' = "announce"
    /\ UNCHANGED <<serial, port, debug, log_only, possible, devs, wd,
                   iter, i, data, pm25, bp>>

\* lines 143-146: one line per device
Announce ==
    /\ pc = "announce"
    /\ trace' = trace \o begin_lines(devs)
    /\ pc' = "watchdog"
    /\ UNCHANGED <<serial, port, debug, log_only, possible, devs, logger, wd,
                   iter, i, data, pm25, bp, held>>

\* lines 149-150: wd = systemd_watchdog.watchdog(); wd.ready()
WatchdogReady ==
    /\ pc = "watchdog"
    /\ wd' = TRUE
    /\ Log(<<"ready", 0>>)
    /\ pc' = "loop"
    /\ UNCHANGED <<serial, port, debug, log_only, possible, devs, logger,
                   iter, i, data, pm25, bp, held>>

\* Ping with wd.ping() placed before `while True` instead of inside it
Ping_before_loop ==
    /\ pc = "loop"
    /\ iter < MaxIter
    /\ iter' = iter + 1
    /\ IF iter = 0 THEN Log(<<"ping", 0>>) ELSE UNCHANGED trace
    /\ i' = 1
    /\ pc' = IF Len(devs) >= 1 THEN "read" ELSE "loop"
    /\ UNCHANGED <<serial, port, debug, log_only, possible, devs, logger, wd,
                   data, pm25, bp, held>>

\* Ping with wd.ready() placed inside `while True`
Ping_with_ready ==
    /\ pc = "loop"
    /\ iter < MaxIter
    /\ iter' = iter + 1
    /\ Log2(<<"ready", 0>>, <<"ping", 0>>)
    /\ i' = 1
    /\ pc' = IF Len(devs) >= 1 THEN "read" ELSE "loop"
    /\ UNCHANGED <<serial, port, debug, log_only, possible, devs, logger, wd,
                   data, pm25, bp, held>>

\* Ping that is also sent, by a timer, while a read is pending
Ping_async ==
    /\ pc \in {"loop", "reading"}
    /\ iter < MaxIter
    /\ iter' = iter + 1
    /\ Log(<<"ping", 0>>)
    /\ i' = IF pc = "loop" THEN 1 ELSE i
    /\ pc' = IF pc = "loop" THEN "read" ELSE pc
    /\ UNCHANGED <<serial, port, debug, log_only, possible, devs, logger, wd,
                   data, pm25, bp, held>>

\* Ping of a loop that scans the ports again in every iteration
Ping_rediscover ==
    /\ pc = "loop"
    /\ iter < MaxIter
    /\ iter' = iter + 1
    /\ Log2(<<"find_devices", port>>, <<"ping", 0>>)
    /\ i' = 1
    /\ pc' = IF Len(devs) >= 1 THEN "read" ELSE "loop"
    /\ UNCHANGED <<serial, port, debug, log_only, possible, devs, logger, wd,
                   data, pm25, bp, held>>

\* lines 152-154: `while True:` wd.ping(), then the first `for dev in devs`
Ping ==
    /\ pc = "loop"
    /\ iter < MaxIter
    /\ iter' = iter + 1
    /\ Log(<<"ping", 0>>)
    /\ i' = 1
    /\ pc' = IF Len(devs) >= 1 THEN "read" ELSE "loop"
    /\ UNCHANGED <<serial, port, debug, log_only, possible, devs, logger, wd,
                   data, pm25, bp, held>>

\* line 155: dev.read() is called
ReadCall ==
    /\ pc = "read"
    /\ Log(<<"read", devs[i].id>>)
    /\ pc' = "reading"
    /\ UNCHANGED <<serial, port, debug, log_only, possible, devs, logger, wd,
                   iter, i, data, pm25, bp, held>>

\* line 155: dev.read() returns a frame; line 156 selects the branch
ReadReturn ==
    /\ pc = "reading"
    /\ \E d \in Samples : data' = d
    /\ Log(<<"read_return", devs[i].id, data'>>)
    /\ pc' = IF debug THEN "debug" ELSE "emit"
    /\ UNCHANGED <<serial, port, debug, log_only, possible, devs, logger, wd,
                   iter, i, pm25, bp, held>>

\* end of the body of `for dev in devs`: next device, or back to `while True`
NextI == IF i < Len(devs) THEN i + 1 ELSE i

\* ReadRaise with the exception caught and the device skipped (`continue`)
ReadRaise_continue ==
    /\ pc = "reading"
    /\ Log(<<"read_raise", devs[i].id>>)
    /\ pc' = IF i < Len(devs) THEN "read" ELSE "loop"
    /\ i' = NextI
    /\ UNCHANGED <<serial, port, debug, log_only, possible, devs, logger, wd,
                   iter, data, pm25, bp, held>>

\* line 155: dev.read() raises; the exception leaves main
ReadRaise ==
    /\ pc = "reading"
    /\ Log(<<"read_raise", devs[i].id>>)
    /\ pc' = "terminated"
    /\ UNCHANGED <<serial, port, debug, log_only, possible, devs, logger, wd,
                   iter, i, data, pm25, bp, held>>

\* end of the body of `for dev in devs`: next device, or back to `while True`
\* NextPc of a loop that runs its body once
NextPc_break == IF i < Len(devs) THEN "read" ELSE "returned"

NextPc == IF i < Len(devs) THEN "read" ELSE "loop"

\* PrintDebug without the `else`: the dispatch follows the dump
PrintDebug_then_emit ==
    /\ pc = "debug"
    /\ Log(<<"print", data>>)
    /\ pc' = "emit"
    /\ i' = i
    /\ UNCHANGED <<serial, port, debug, log_only, possible, devs, logger, wd,
                   iter, data, pm25, bp, held>>

\* lines 156-157: print_debug(data)
PrintDebug ==
    /\ pc = "debug"
    /\ Log(<<"print", data>>)
    /\ pc' = NextPc
    /\ i' = NextI
    /\ UNCHANGED <<serial, port, debug, log_only, possible, devs, logger, wd,
                   iter, data, pm25, bp, held>>

\* Emit with logger.emit placed under `if not log_only`
Emit_unless_log_only ==
    /\ pc = "emit"
    /\ IF ~ log_only
       THEN /\ Log(<<"emit", pm_fields(data), [type |-> "PMS7003", id |-> devs[i].id]>>)
            /\ pc' = "summary" /\ i' = i
       ELSE /\ UNCHANGED trace
            /\ pc' = NextPc /\ i' = NextI
    /\ UNCHANGED <<serial, port, debug, log_only, possible, devs, logger, wd,
                   iter, data, pm25, bp, held>>

\* Emit tagging every record with the id of the first device
Emit_first_id ==
    /\ pc = "emit"
    /\ Log(<<"emit", pm_fields(data), [type |-> "PMS7003", id |-> devs[1].id]>>)
    /\ IF ~ log_only
       THEN pc' = "summary" /\ i' = i
       ELSE pc' = NextPc /\ i' = NextI
    /\ UNCHANGED <<serial, port, debug, log_only, possible, devs, logger, wd,
                   iter, data, pm25, bp, held>>

\* lines 159-165: logger.emit(fields, tags) returns; `if not log_only`
Emit ==
    /\ pc = "emit"
    /\ Log(<<"emit", pm_fields(data), [type |-> "PMS7003", id |-> devs[i].id]>>)
    /\ IF ~ log_only
       THEN pc' = "summary" /\ i' = i
       ELSE pc' = NextPc /\ i' = NextI
    /\ UNCHANGED <<serial, port, debug, log_only, possible, devs, logger, wd,
                   iter, data, pm25, bp, held>>

\* EmitRaise with the exception caught and logged: main goes on
EmitRaise_swallowed ==
    /\ pc = "emit"
    /\ Log(<<"emit_raise", devs[i].id>>)
    /\ IF ~ log_only
       THEN pc' = "summary" /\ i' = i
       ELSE pc' = NextPc /\ i' = NextI
    /\ UNCHANGED <<serial, port, debug, log_only, possible, devs, logger, wd,
                   iter, data, pm25, bp, held>>

\* lines 159-164: logger.emit raises; the exception leaves main
EmitRaise ==
    /\ pc = "emit"
    /\ Log(<<"emit_raise", devs[i].id>>)
    /\ pc' = "terminated"
    /\ UNCHANGED <<serial, port, debug, log_only, possible, devs, logger, wd,
                   iter, i, data, pm25, bp, held>>

\* PrintPm classifying the CF=1 value instead of the atmospheric one
PrintPm_cf1 ==
    /\ pc = "summary"
    /\ pm25' = ToTenths(data.pm2_5_cf1)
    /\ bp' = get_breakpoint(pm25')
    /\ Log(<<"echo", pm_line(data, bp'[1], bp'[2])>>)
    /\ pc' = NextPc
    /\ i' = NextI
    /\ UNCHANGED <<serial, port, debug, log_only, possible, devs, logger, wd,
                   iter, data, held>>

\* line 166 and lines 56-68: print_pm(data)
PrintPm ==
    /\ pc = "summary"
    /\ pm25' = ToTenths(data.pm2_5_atm)
    /\ bp' = get_breakpoint(pm25')
    /\ Log(<<"echo", pm_line(data, bp'[1], bp'[2])>>)
    /\ pc' = NextPc
    /\ i' = NextI
    /\ UNCHANGED <<serial, port, debug, log_only, possible, devs, logger, wd,
                   iter, data, held>>

\* a signal or KeyboardInterrupt ends the process while the loop runs
Interrupt ==
    /\ pc \in Running
    /\ Log(<<"interrupt", 0>>)
    /\ pc' = "terminated"
    /\ UNCHANGED <<serial, port, debug, log_only, possible, devs, logger, wd,
                   iter, i, data, pm25, bp, held>>

Next ==
    \/ Discover
    \/ WarnErrors
    \/ CollectDevs
    \/ OpenSink
    \/ Announce
    \/ WatchdogReady
    \/ Ping
    \/ ReadCall
    \/ ReadReturn
    \/ ReadRaise
    \/ PrintDebug
    \/ Emit
    \/ EmitRaise
    \/ PrintPm
    \/ Interrupt

Spec == Init /\ [][Next]_vars

\* main when every read and every dispatch returns and no signal arrives: the
\* interpreter always takes the next step of main
NextNormal ==
    \/ Discover
    \/ WarnErrors
    \/ CollectDevs
    \/ OpenSink
    \/ Announce
    \/ WatchdogReady
    \/ Ping
    \/ ReadCall
    \/ ReadReturn
    \/ PrintDebug
    \/ Emit
    \/ PrintPm

SpecNormal == Init /\ [][NextNormal]_vars /\ WF_vars(NextNormal)

----------------------------------------------------------------------------
(* get_breakpoint called on its own, on every concentration up to MaxConc  *)

InitAqi ==
    /\ serial = <<>>
    /\ port = 0
    /\ debug = FALSE
    /\ log_only = FALSE
    /\ pc = "get_breakpoint"
    /\ possible = <<>>
    /\ devs = <<>>
    /\ logger = NoLogger
    /\ wd = FALSE
    /\ iter = 0
    /\ i = 0
    /\ data = NoData
    /\ pm25 \in 0..MaxConc
    /\ bp = <<>>
    /\ held = {}
    /\ trace = <<>>

CallGetBreakpoint ==
    /\ pc = "get_breakpoint"
    /\ bp' = get_breakpoint(pm25)
    /\ pc' = "get_breakpoint_returned"
    /\ UNCHANGED <<serial, port, debug, log_only, possible, devs, logger, wd,
                   iter, i, data, pm25, held, trace>>

NextAqi == CallGetBreakpoint

SpecAqi == InitAqi /\ [][NextAqi]_vars

----------------------------------------------------------------------------
(* Reading the trace *)

Op(k) == trace[k][1]
At(op) == { k \in DOMAIN trace : Op(k) = op }
Count(op) == Cardinality(At(op))
Before(op, k) == Cardinality({ j \in At(op) : j < k })

\* positions of the lines written on the standard output stream
StdoutAt == At("echo") \cup At("print")
SummaryAt == { k \in At("echo") : trace[k][2].kind = "summary" }

Usable(ps) == \E k \in DOMAIN ps : ps[k].dev # NoDev
Min(S) == CHOOSE m \in S : \A n \in S : m <= n

----------------------------------------------------------------------------
(* Properties of main *)

\* C1: every iteration of the loop emits exactly one ping, and the ping of an
\* iteration precedes every device read of that iteration: when a read is
\* called the pings so far number the iterations entered, the reads of the
\* earlier iterations are all done, and a read that raises leaves the ping of
\* its iteration emitted.
C1_OnePingPerIteration ==
    /\ Count("ping") = iter
    /\ \A k \in At("read") :
          /\ Before("ping", k) >= 1
          /\ Before("read", k) >= (Before("ping", k) - 1) * Len(devs)
          /\ Before("read", k) < Before("ping", k) * Len(devs)
    /\ \A k \in At("read_raise") : Before("ping", k) = iter

\* a read of the last device fails in the second iteration of a two-device run
C1_Witness ==
    /\ pc = "terminated"
    /\ Count("read_raise") = 1
    /\ Len(devs) = 2
    /\ iter = 2
    /\ Count("read") = 4

\* C2: when discovery yields no usable device (no result at all, or only
\* results without a device) main never opens the sink, never signals ready,
\* never pings, reads or dispatches, and ends in the returned state.
C2_NoDevicesNoLoop ==
    (pc # "start" /\ ~ Usable(possible)) =>
        /\ pc \in {"warn", "collect", "returned"}
        /\ logger = NoLogger
        /\ wd = FALSE
        /\ iter = 0
        /\ devs = <<>>
        /\ \A k \in DOMAIN trace :
              Op(k) \notin {"InfluxdbLogger", "ready", "ping", "read", "read_return", "emit"}

\* every port failed, and main has returned
C2_Witness ==
    /\ pc = "returned"
    /\ Len(possible) >= 1
    /\ ~ Usable(possible)
    /\ Count("echo_err") = Len(possible) + 1

\* C3: ready() is signalled at most once in any run and exactly once in a run
\* that reaches the loop; it comes after discovery produced a device and after
\* the sink was opened, and before the first ping and the first read.
C3_ReadyOnce ==
    /\ Count("ready") <= 1
    /\ pc \in Running \cup {"terminated"} => Count("ready") = 1
    /\ Count("ping") > 0 \/ Count("read") > 0 => Count("ready") = 1
    /\ \A r \in At("ready") :
          /\ Usable(possible)
          /\ Len(devs) >= 1
          /\ logger # NoLogger
          /\ Before("InfluxdbLogger", r) = 1
          /\ Before("ping", r) = 0
          /\ Before("read", r) = 0

\* two whole iterations have run after the single ready()
C3_Witness ==
    /\ pc = "loop"
    /\ iter = 2
    /\ Count("ready") = 1
    /\ Count("ping") = 2
\* the six PM keys, and all keys of a frame
PmKeys == {"pm1_0_cf1", "pm1_0_atm", "pm2_5_cf1", "pm2_5_atm", "pm10_0_cf1", "pm10_0_atm"}
FrameKeys == PmKeys \cup {"header_high", "header_low", "frame_length", "count_0_3",
                          "count_0_5", "count_1_0", "count_2_5", "count_5_0",
                          "count_10_0", "reserved", "checksum"}

\* C4: in normal mode every completed iteration has dispatched exactly one
\* record per device - each emit directly follows the read of its device, each
\* read that returned is followed by the emit - and the keys of every record
\* are exactly the six PM keys.
C4_OneRecordPerRead ==
    ~ debug =>
        /\ \A k \in At("emit") :
              /\ DOMAIN trace[k][2] = PmKeys
              /\ k > 1 /\ Op(k - 1) = "read_return"
              /\ trace[k - 1][2] = trace[k][3].id
        /\ \A k \in At("read_return") :
              k < Len(trace) => Op(k + 1) \in {"emit", "emit_raise", "interrupt"}
        /\ \A k \in At("ping") :
              Before("emit", k) = Before("ping", k) * Len(devs)
        /\ pc = "loop" =>
              Count("emit") = iter * Len(devs) /\ Count("read") = iter * Len(devs)

\* two iterations over two devices have completed in normal mode
C4_Witness ==
    /\ ~ debug
    /\ pc = "loop"
    /\ iter = 2
    /\ Len(devs) = 2
    /\ Count("emit") = 4

Emits == SelectSeq(trace, LAMBDA e : e[1] = "emit")
Reads == SelectSeq(trace, LAMBDA e : e[1] = "read_return")

\* the record that a frame d read from device id is to be dispatched as
RecordOf(id, d) ==
    <<"emit",
      [pm1_0_cf1 |-> d.pm1_0_cf1, pm1_0_atm |-> d.pm1_0_atm,
       pm2_5_cf1 |-> d.pm2_5_cf1, pm2_5_atm |-> d.pm2_5_atm,
       pm10_0_cf1 |-> d.pm10_0_cf1, pm10_0_atm |-> d.pm10_0_atm],
      [type |-> "PMS7003", id |-> id]>>

\* C6: with log_only in normal mode every read is followed by a dispatch and
\* no summary line is written; and the sequence of dispatches is determined by
\* the debug flag and the sequence of frames read alone (record k is the
\* record of read k), so it is the same with and without log_only.
C6_LogOnlyKeepsDispatch ==
    /\ (~ debug /\ log_only) =>
          /\ SummaryAt = {}
          /\ \A k \in At("read_return") :
                k < Len(trace) => Op(k + 1) \in {"emit", "emit_raise", "interrupt"}
    /\ IF debug
       THEN Emits = <<>>
       ELSE /\ Len(Emits) <= Len(Reads)
            /\ Len(Emits) >= Len(Reads) - 1
            /\ pc \in {"loop", "read", "reading", "summary"} => Len(Emits) = Len(Reads)
            /\ \A k \in DOMAIN Emits : Emits[k] = RecordOf(Reads[k][2], Reads[k][3])

\* two log-only iterations over two devices: four records, no summary
C6_Witness ==
    /\ ~ debug
    /\ log_only
    /\ pc = "loop"
    /\ iter = 2
    /\ Len(devs) = 2
    /\ Len(Emits) = 4
    /\ SummaryAt = {}

\* C7: with --log-only nothing is written on the standard output stream, in
\* any state of the run and for either value of debug.
C7_LogOnlySilent ==
    log_only => StdoutAt = {}

----------------------------------------------------------------------------
(* Properties of get_breakpoint *)

\* lower bounds of the six brackets of the table, in tenths
Lower == <<0, 155, 405, 655, 1500, 2500>>

\* the bracket of the table that holds x: lower bound inclusive, upper exclusive
TableBracket(x) ==
    CHOOSE t \in 0..5 : Lower[t + 1] <= x /\ (t = 5 \/ x < Lower[t + 2])

\* the label of each bracket, by severity
Labels == <<"Good", "Moderate", "Unhealthy for Certain Groups", "Unhealthy",
            "Very Unhealthy", "Hazardous">>
Colours == <<"Fore.GREEN", "Fore.YELLOW", "Fore.YELLOWStyle.BRIGHT", "Fore.RED",
             "Fore.REDStyle.BRIGHT", "Fore.MAGENTA">>
TableLabels == <<"Good", "Moderate", "UnhealthyForSensitiveGroups", "Unhealthy",
                 "VeryUnhealthy", "Hazardous">>

\* the bracket a result of get_breakpoint stands for
BracketOf(r) == CHOOSE t \in 0..5 : Labels[t + 1] = r[1]

\* C8: get_breakpoint returns one of the six brackets for every non-negative
\* concentration (in tenths), namely the bracket of the table with the upper
\* bound exclusive; each of 15.5, 40.5, 65.5, 150, 250 is the lowest value of
\* its bracket; and no smaller concentration gets a higher bracket.
C8_Brackets ==
    bp # <<>> =>
        /\ bp[1] \in Range(Labels)
        /\ BracketOf(bp) = TableBracket(pm25)
        /\ pm25 \in Range(Lower) /\ pm25 > 0 =>
              BracketOf(get_breakpoint(pm25 - 1)) = BracketOf(bp) - 1
        /\ \A y \in 0..pm25 : BracketOf(get_breakpoint(y)) <= BracketOf(bp)

\* the boundary 250 has been classified, into the last bracket
C8_Witness ==
    /\ pc = "get_breakpoint_returned"
    /\ pm25 = 2500
    /\ BracketOf(bp) = 5

\* C9 as stated: the label returned for each bracket is the label of the table
\* (Good, Moderate, UnhealthyForSensitiveGroups, Unhealthy, VeryUnhealthy,
\* Hazardous).
C9_TableLabels ==
    bp # <<>> => bp[1] = TableLabels[TableBracket(pm25) + 1]

\* C9 amended: the result is the pair of the label and the colour of the
\* bracket of the table, the labels being Good, Moderate, Unhealthy for
\* Certain Groups, Unhealthy, Very Unhealthy, Hazardous; 15.4 is Good, 15.5
\* Moderate, 40.5 Unhealthy for Certain Groups, 65.5 Unhealthy, 150 Very
\* Unhealthy, 250 Hazardous.
C9_CodeLabels ==
    bp # <<>> =>
        /\ Len(bp) = 2
        /\ bp[1] = Labels[TableBracket(pm25) + 1]
        /\ bp[2] = Colours[TableBracket(pm25) + 1]
        /\ pm25 = 154 => bp[1] = "Good"
        /\ pm25 = 155 => bp[1] = "Moderate"
        /\ pm25 = 405 => bp[1] = "Unhealthy for Certain Groups"
        /\ pm25 = 655 => bp[1] = "Unhealthy"
        /\ pm25 = 1500 => bp[1] = "Very Unhealthy"
        /\ pm25 = 2500 => bp[1] = "Hazardous"

\* 40.5 has been classified
C9_Witness ==
    /\ pc = "get_breakpoint_returned"
    /\ pm25 = 405
    /\ bp = <<"Unhealthy for Certain Groups", "Fore.YELLOWStyle.BRIGHT">>

----------------------------------------------------------------------------
(* Release of resources *)

\* C10: when the process has terminated from the loop, no serial handle and
\* no sink acquired by main is still held.
C10_ReleasedOnTermination ==
    pc = "terminated" => held = {}

----------------------------------------------------------------------------
(* The loop *)

\* C11: when every read and dispatch returns and no signal arrives, main never
\* leaves the loop once it has entered it, and every iteration entered (up to
\* the bound on iterations) is followed by the ping of the next one.
C11_NoNormalExit ==
    /\ [][(pc \in Running) => (pc' \in Running)]_vars
    /\ \A n \in 0..(MaxIter - 1) :
          (pc \in Running /\ iter = n) ~> (iter = n + 1 /\ Count("ping") = n + 1)

\* a second iteration has followed the first and is reading its last device
C11_Witness ==
    /\ pc = "reading"
    /\ iter = 2
    /\ i = Len(devs)
    /\ Count("ping") = 2
    /\ Count("read_return") = 2 * Len(devs) - 1

----------------------------------------------------------------------------
(* Discovery results *)

Failing == SelectSeq(possible, LAMBDA p : p.dev = NoDev)
Working == SelectSeq(possible, LAMBDA p : p.dev # NoDev)
Warnings == SelectSeq(trace, LAMBDA e : e[1] = "echo_err" /\ e[2].kind = "port_error")

\* C12: once the warnings are written there is exactly one warning on the error
\* stream per result without a device, in scan order, with its description,
\* port and error, all before the sink is opened; the loop polls exactly the
\* results with a device, in order (N - M devices), and never a failing one.
C12_FailuresNonFatal ==
    pc \notin {"start", "warn"} =>
        /\ Len(Warnings) = Len(Failing)
        /\ \A k \in DOMAIN Warnings :
              /\ Warnings[k][2].desc = Failing[k].desc
              /\ Warnings[k][2].port = Failing[k].port
              /\ Warnings[k][2].error = Failing[k].error
        /\ \A k \in At("echo_err") : Before("InfluxdbLogger", k) = 0
        /\ pc \notin {"collect", "returned"} =>
              /\ Len(devs) = Len(possible) - Len(Failing)
              /\ Len(devs) >= 1
              /\ \A k \in DOMAIN devs : devs[k] = Working[k].dev
        /\ \A k \in At("read") :
              /\ \E w \in DOMAIN Working : Working[w].dev.id = trace[k][2]
              /\ \A f \in DOMAIN Warnings : Warnings[f][2].port # trace[k][2] - 100
        /\ (pc = "loop" /\ iter >= 1) =>
              \A w \in DOMAIN Working :
                 Cardinality({ k \in At("read") : trace[k][2] = Working[w].dev.id }) = iter

\* two ports, one of them failing, and the loop has polled the other one
C12_Witness ==
    /\ pc = "loop"
    /\ iter >= 1
    /\ Len(possible) = 2
    /\ Len(devs) = 1
    /\ Len(Warnings) = 1

----------------------------------------------------------------------------
(* The body of the loop *)

\* C13: in normal mode without log_only every read that returned is followed
\* by one dispatch and then one summary line of the same frame; the line shows
\* the atmospheric PM1.0, PM2.5 and PM10 of that frame and the label of the
\* bracket of its atmospheric PM2.5 value.
C13_SummaryOfSameFrame ==
    (~ debug /\ ~ log_only) =>
        /\ \A k \in At("read_return") :
              /\ k + 1 <= Len(trace) => Op(k + 1) \in {"emit", "emit_raise", "interrupt"}
              /\ (k + 2 <= Len(trace) /\ Op(k + 1) = "emit") =>
                    /\ Op(k + 2) \in {"echo", "interrupt"}
                    /\ Op(k + 2) = "echo" =>
                          /\ trace[k + 2][2].kind = "summary"
                          /\ trace[k + 2][2].pm1_0 = trace[k][3].pm1_0_atm
                          /\ trace[k + 2][2].pm2_5[2] = trace[k][3].pm2_5_atm
                          /\ trace[k + 2][2].pm10 = trace[k][3].pm10_0_atm
                          /\ trace[k + 2][2].aqi[2] =
                                Labels[TableBracket(10 * trace[k][3].pm2_5_atm) + 1]
                          /\ trace[k + 2][2].aqi[1] = trace[k + 2][2].pm2_5[1]
        /\ \A k \in SummaryAt :
              k > 2 /\ Op(k - 1) = "emit" /\ Op(k - 2) = "read_return"
        /\ pc = "loop" =>
              Cardinality(SummaryAt) = iter * Len(devs) /\ Count("emit") = iter * Len(devs)

\* two iterations over two devices, the last frame being a Very Unhealthy one
\* whose CF=1 value is in another bracket
C13_Witness ==
    /\ ~ debug /\ ~ log_only
    /\ pc = "loop"
    /\ iter = 2
    /\ Len(devs) = 2
    /\ Cardinality(SummaryAt) = 4
    /\ bp[1] = "Very Unhealthy"
    /\ get_breakpoint(10 * data.pm2_5_cf1)[1] = "Unhealthy"

ReadCalls == SelectSeq(trace, LAMBDA e : e[1] = "read")

\* the last call main makes for a device in an iteration
OutputOp == IF debug THEN "print" ELSE IF log_only THEN "emit" ELSE "echo"

\* C14: the reads go round the devices in discovery order, each device once
\* per iteration and in the same order in every iteration: read j is of the
\* device at place ((j-1) mod N)+1 of the results with a device; the first read
\* of an iteration directly follows its ping, and every other read directly
\* follows the output (dump, or dispatch and summary) of the device before it.
C14_SequentialInOrder ==
    /\ \A j \in DOMAIN ReadCalls :
          ReadCalls[j][2] = Working[((j - 1) % Len(Working)) + 1].dev.id
    /\ Len(ReadCalls) <= iter * Len(devs)
    /\ Len(ReadCalls) >= (iter - 1) * Len(devs)
    /\ \A k \in At("read") :
          /\ k > 1
          /\ IF Before("read", k) % Len(devs) = 0
             THEN Op(k - 1) = "ping"
             ELSE /\ Op(k - 1) = OutputOp
                  /\ Cardinality({ j \in At(OutputOp) : Min(At("ping")) < j /\ j < k })
                        = Before("read", k)
                  /\ Before("read_return", k) = Before("read", k)

\* two iterations over two devices: four reads
C14_Witness ==
    /\ pc = "loop"
    /\ iter = 2
    /\ Len(devs) = 2
    /\ Len(ReadCalls) = 4
    /\ ReadCalls[3][2] # ReadCalls[4][2]

\* C15: every record is tagged type PMS7003 and the id of the device whose read
\* directly precedes it, that read was called on that device after the ping of
\* the current iteration, and the six values of the record are those of the
\* frame that read returned.
C15_RecordOfDeviceAndFrame ==
    \A k \in At("emit") :
        /\ k > 2
        /\ Op(k - 1) = "read_return"
        /\ Op(k - 2) = "read"
        /\ trace[k - 2][2] = trace[k - 1][2]
        /\ trace[k][3] = [type |-> "PMS7003", id |-> trace[k - 1][2]]
        /\ trace[k][3].id = devs[((Before("read", k) - 1) % Len(devs)) + 1].id
        /\ \A key \in DOMAIN trace[k][2] : trace[k][2][key] = trace[k - 1][3][key]
        /\ \A j \in At("ping") : ~ (k - 2 < j /\ j < k)

\* the two devices have returned different frames in one iteration and both
\* records are dispatched
C15_Witness ==
    /\ Len(devs) = 2
    /\ Len(Emits) >= 2
    /\ Emits[1][3].id = devs[1].id
    /\ Emits[2][3].id = devs[2].id
    /\ Emits[1][2] # Emits[2][2]

\* C16: while a read is pending main does nothing else: the only step from a
\* pending read is the return or the failure of that read, or the end of the
\* process; no ping, no read of another device and no dispatch is made, so a
\* read that never returns leaves the ping of its iteration the last one.
C16_BlockedReadBlocksAll ==
    [][pc = "reading" =>
         /\ Len(trace') = Len(trace) + 1
         /\ SubSeq(trace', 1, Len(trace)) = trace
         /\ trace'[Len(trace')][1] \in {"read_return", "read_raise", "interrupt"}
         /\ iter' = iter /\ i' = i]_vars

\* the read of the first of two devices is pending in the first iteration
C16_Witness ==
    /\ pc = "reading"
    /\ Len(devs) = 2
    /\ i = 1
    /\ iter = 1
    /\ Op(Len(trace)) = "read"
    /\ Count("ping") = 1

----------------------------------------------------------------------------
(* Failures in the loop *)

\* C17: a read that raises ends the run at once: the failure is the last call
\* of the run and main has terminated - no record, dump or summary for that
\* read, no read of the devices after it, no retry, no later iteration and no
\* further ping.
C17_ReadErrorAborts ==
    \A k \in At("read_raise") :
        /\ k = Len(trace)
        /\ pc = "terminated"
        /\ Op(k - 1) = "read" /\ trace[k - 1][2] = trace[k][2]
        /\ Count("read_raise") = 1
        /\ Count("ping") = iter
        /\ Count("read") = (iter - 1) * Len(devs) + i
        /\ Count("read_return") = Count("read") - 1

\* the first of two devices failed in the first iteration
C17_Witness ==
    /\ pc = "terminated"
    /\ Op(Len(trace)) = "read_raise"
    /\ Len(devs) = 2
    /\ i = 1
    /\ iter = 1
    /\ Count("read") = 1

\* C18: a dispatch that raises ends the run at once: the failure is the last
\* call of the run and main has terminated - no summary line for that frame,
\* no read of the remaining devices, no second attempt and no further ping.
C18_SinkErrorAborts ==
    \A k \in At("emit_raise") :
        /\ k = Len(trace)
        /\ pc = "terminated"
        /\ Op(k - 1) = "read_return" /\ trace[k - 1][2] = trace[k][2]
        /\ Count("emit_raise") = 1
        /\ Count("emit") = Count("read_return") - 1
        /\ ~ log_only => Cardinality(SummaryAt) = Count("emit")
        /\ Count("ping") = iter
        /\ Count("read") = (iter - 1) * Len(devs) + i

\* the dispatch for the first of two devices failed, without log_only
C18_Witness ==
    /\ pc = "terminated"
    /\ Op(Len(trace)) = "emit_raise"
    /\ ~ log_only
    /\ Len(devs) = 2
    /\ i = 1
    /\ iter = 2

----------------------------------------------------------------------------
(* Frame of the loop *)

\* C19: find_devices is called once and the sink is built once in a run, and
\* no step taken in the loop changes the discovery results, the sequence of
\* polled devices or the sink.
C19_DiscoveryAndSinkOnce ==
    /\ [](Count("find_devices") <= 1 /\ Count("InfluxdbLogger") <= 1)
    /\ [](pc \in Running => Count("find_devices") = 1 /\ Count("InfluxdbLogger") = 1)
    /\ [][(pc \in Running) =>
            (devs' = devs /\ logger' = logger /\ possible' = possible /\ held' = held)]_vars

\* two iterations have run on the devices and sink of the start
C19_Witness ==
    /\ pc = "loop"
    /\ iter = 2
    /\ Len(devs) = 2
    /\ logger = InfluxdbLogger("measurements.log")
    /\ Count("find_devices") = 1
    /\ Count("InfluxdbLogger") = 1

====
